---- MODULE Spec2Model ----
(***************************************************************************)
(* State-machine model of RAG_init.py: the markdown loader, the index      *)
(* build, the chain setup, the per-query pipeline and the interactive      *)
(* loop of the main script.  Text is modelled as sequences of one-char     *)
(* strings so that suffix tests, lower-casing and formatting are computed  *)
(* rather than assumed.                                                    *)
(***************************************************************************)
EXTENDS Naturals, Integers, Sequences, FiniteSets, TLC

(* ---------------------------------------------------------------------- *)
(* Bounds                                                                  *)
(* ---------------------------------------------------------------------- *)

\* number of directory entries the walk can meet
MaxFiles == 8

(* ---------------------------------------------------------------------- *)
(* Text helpers (Python str operations used by the program)                *)
(* ---------------------------------------------------------------------- *)

\* str.endswith(suffix)
EndsWith(s, suffix) ==
    /\ Len(s) >= Len(suffix)
    /\ SubSeq(s, Len(s) - Len(suffix) + 1, Len(s)) = suffix

\* lower-casing of one character (ASCII letters that occur in the inputs)
LowerChar(c) ==
    CASE c = "E" -> "e" [] c = "X" -> "x" [] c = "I" -> "i" [] c = "T" -> "t"
      [] c = "Q" -> "q" [] c = "U" -> "u" [] c = "M" -> "m" [] c = "D" -> "d"
      [] OTHER -> c

\* str.lower()
Lower(s) == [i \in 1..Len(s) |-> LowerChar(s[i])]

\* os.path.join(root, filename)
PathJoin(root, filename) == root \o <<"/">> \o filename

\* the suffix filter of the loader, line 30
MdSuffix == <<".", "m", "d">>

(* ---------------------------------------------------------------------- *)
(* The directory tree, as os.walk lists it                                 *)
(* ---------------------------------------------------------------------- *)

VaultRoot == <<"v">>
SubDir == <<"v", "/", "s">>

\* the entries os.walk can yield, in traversal order (top directory first);
\* each run's tree holds a subset of the first MaxFiles of them
Candidates ==
    << [root |-> VaultRoot, filename |-> <<"a", ".", "m", "d">>,
        text |-> <<"-", "[", " ", "]", "m">>],
       [root |-> VaultRoot, filename |-> <<"b", ".", "m", "d">>,
        text |-> <<"-", "[", "x", "]">>],
       [root |-> VaultRoot, filename |-> <<"n", ".", "M", "D">>,
        text |-> <<"N">>],
       [root |-> VaultRoot, filename |-> <<".", "m", "d">>,
        text |-> <<>>],
       [root |-> SubDir, filename |-> <<"a", ".", "m", "d">>,
        text |-> <<"-", "[", " ", "]", "k">>],
       [root |-> SubDir, filename |-> <<"c", ".", "m", "d">>,
        text |-> <<"c", "c">>],
       [root |-> SubDir, filename |-> <<"d", ".", "m", "d">>,
        text |-> <<"d", "d", "d">>],
       [root |-> SubDir, filename |-> <<"e", ".", "m", "d", ".", "b">>,
        text |-> <<"e">>],
       [root |-> SubDir, filename |-> <<"m", "d">>,
        text |-> <<"f", "f">>],
       [root |-> SubDir, filename |-> <<"g", ".", "m", "d">>,
        text |-> <<"g">>] >>

\* what the filesystem holds for one entry
FileStates == {"absent", "readable", "unreadable"}

(* ---------------------------------------------------------------------- *)
(* State                                                                   *)
(* ---------------------------------------------------------------------- *)

VARIABLES
    fs,            \* the directory tree: entry index -> FileStates
    pc,            \* position of the main script / stage of the current query
    docs,          \* load_and_embed_markdown: the documents collected
    vectorstore,   \* the FAISS index: sequence of (vector, document) entries
    rag_chain,     \* the chain object of the main script, NoChain before setup
    query,         \* the last line read by the loop
    qvec,          \* the query's embedding
    retrieved,     \* the documents the retriever returned
    prompt,        \* the assembled chat prompt
    response,      \* the chain's raw response
    returned,      \* what execute_query returned for the last line
    printed,       \* lines written to stdout since the last line was read
    trace,         \* stages the current query went through, in order
    calls,         \* provider calls: at build, and for the current line
    everFailed     \* some query of this session has failed

vars == <<fs, pc, docs, vectorstore, rag_chain, query, qvec, retrieved, prompt,
          response, returned, printed, trace, calls, everFailed>>

\* what execute_query returns: None, or a string
None == [is_none |-> TRUE, text |-> <<>>]
Str(text) == [is_none |-> FALSE, text |-> text]

\* the names not bound yet: no prompt, no response
NoPrompt == [is_none |-> TRUE, context |-> <<>>, question |-> <<>>]
NoResponse == [is_none |-> TRUE, query |-> <<>>, result |-> <<>>, source_documents |-> <<>>]
NoChain == [k |-> 0, built |-> FALSE]

\* one line of output
Line(kind, text) == [kind |-> kind, text |-> text]

\* TextLoader(filepath).load(): one Document per file, lines 31-34
Document(i) ==
    [page_content |-> Candidates[i].text,
     source |-> PathJoin(Candidates[i].root, Candidates[i].filename)]

\* the filenames os.walk lists: the entries present in the tree, line 28
Walk(tree) == SelectSeq([i \in 1..MaxFiles |-> i], LAMBDA i : tree[i] # "absent")

\* line 30
Eligible(i) == EndsWith(Candidates[i].filename, MdSuffix)

\* fault: the try encloses the whole walk, so the first unreadable file ends it
RECURSIVE LoadDocsStopsAtBad(_, _)
LoadDocsStopsAtBad(tree, listing) ==
    IF listing = <<>> THEN <<>>
    ELSE LET i == Head(listing)
         IN  IF ~EndsWith(Candidates[i].filename, MdSuffix)
             THEN LoadDocsStopsAtBad(tree, Tail(listing))
             ELSE IF tree[i] = "readable"
             THEN <<Document(i)>> \o LoadDocsStopsAtBad(tree, Tail(listing))
             ELSE <<>>

\* lines 27-36: the documents collected from a walk listing
RECURSIVE LoadDocs(_, _)
LoadDocs(tree, listing) ==
    IF listing = <<>> THEN <<>>
    ELSE LET i == Head(listing)
             rest == LoadDocs(tree, Tail(listing))
         IN  IF ~Eligible(i) THEN rest
             ELSE IF tree[i] = "readable" THEN <<Document(i)>> \o rest
             ELSE rest

\* line 36: the error lines printed while loading
RECURSIVE LoadErrors(_, _)
LoadErrors(tree, listing) ==
    IF listing = <<>> THEN <<>>
    ELSE LET i == Head(listing)
             rest == LoadErrors(tree, Tail(listing))
         IN  IF Eligible(i) /\ tree[i] = "unreadable"
             THEN <<Line("load_error", Document(i).source)>> \o rest
             ELSE rest

Init ==
    /\ fs \in [1..MaxFiles -> FileStates]
    /\ pc = "load"
    /\ docs = <<>>
    /\ vectorstore = <<>>
    /\ rag_chain = NoChain
    /\ query = <<>>
    /\ qvec = 0
    /\ retrieved = <<>>
    /\ prompt = NoPrompt
    /\ response = NoResponse
    /\ returned = None
    /\ printed = <<Line("info", <<"Embedding markdown notes...">>)>>
    /\ trace = <<>>
    /\ calls = [build |-> 0, embed |-> 0, lm |-> 0, chain |-> 0]
    /\ everFailed = FALSE

\* fault: the failure is reported but exit(1) is missing
AbortWithoutExit(out, msg, e) ==
    /\ pc' = "Ready"
    /\ printed' = Append(out, Line("fatal", <<msg, e>>))

\* exit(1) of the main script after a build-time failure, lines 147-149, 155-157
Abort(out, msg, e) ==
    /\ pc' = "exited"
    /\ printed' = Append(out, Line("fatal", <<msg, e>>))

\* fault: the "if not docs" test of line 38 is missing
LoadMarkdownNoEmptyCheck ==
    /\ pc = "load"
    /\ docs' = LoadDocs(fs, Walk(fs))
    /\ pc' = "embed"
    /\ printed' = printed \o LoadErrors(fs, Walk(fs))
    /\ UNCHANGED <<fs, vectorstore, rag_chain, query, qvec, retrieved, prompt,
                   response, returned, trace, calls, everFailed>>

\* lines 27-39 within 145-149: walk, filter, read; no documents is an error
LoadMarkdown ==
    /\ pc = "load"
    /\ LET found == LoadDocs(fs, Walk(fs))
           errs == LoadErrors(fs, Walk(fs))
       IN  /\ docs' = found
           /\ IF found = <<>>
              THEN Abort(printed \o errs, "Failed to embed markdown notes: ", "ValueError")
              ELSE /\ pc' = "embed"
                   /\ printed' = printed \o errs
    /\ UNCHANGED <<fs, vectorstore, rag_chain, query, qvec, retrieved, prompt,
                   response, returned, trace, calls, everFailed>>

(* ---------------------------------------------------------------------- *)
(* Embedding index                                                         *)
(* ---------------------------------------------------------------------- *)

\* the embedding provider: text -> vector (OpenAIEmbeddings, line 42)
Embed(text) == Len(text)

\* FAISS.from_documents(docs, embeddings), line 44: one entry per document
FromDocuments(ds) ==
    [i \in 1..Len(ds) |-> [vector |-> Embed(ds[i].page_content), document |-> ds[i]]]

\* the retriever's k, line 76
K == 5

Distance(a, b) == IF a >= b THEN a - b ELSE b - a

\* the nearest entry not taken yet; the first indexed wins a tie
Nearest(store, v, taken) ==
    CHOOSE i \in (1..Len(store)) \ taken :
        \A j \in (1..Len(store)) \ taken :
            \/ Distance(store[i].vector, v) < Distance(store[j].vector, v)
            \/ /\ Distance(store[i].vector, v) = Distance(store[j].vector, v)
               /\ i <= j

RECURSIVE TopK(_, _, _, _)
TopK(store, v, k, taken) ==
    IF k = 0 \/ taken = 1..Len(store) THEN <<>>
    ELSE LET i == Nearest(store, v, taken)
         IN  <<store[i].document>> \o TopK(store, v, k - 1, taken \cup {i})

\* fault: search_kwargs is not passed, the retriever falls back to 4 results
SimilaritySearchDefaultK(store, v, k) == TopK(store, v, 4, {})

\* retriever with search_type="similarity", search_kwargs={"k": 5}, line 76
SimilaritySearch(store, v, k) == TopK(store, v, k, {})

\* lines 41-49 within 145-149: embed every document and index it
EmbedDocuments ==
    /\ pc = "embed"
    /\ calls' = [calls EXCEPT !.build = 1]
    /\ \E ok \in BOOLEAN :
         IF ok
         THEN /\ vectorstore' = FromDocuments(docs)
              /\ pc' = "setup"
              /\ printed' = Append(printed,
                    Line("info", <<"Setting up retrieval-augmented QA (RAG)...">>))
         ELSE /\ vectorstore' = vectorstore
              /\ Abort(Append(printed, Line("info", <<"Error creating vectorstore: ", "EmbeddingError">>)),
                       "Failed to embed markdown notes: ", "EmbeddingError")
    /\ UNCHANGED <<fs, docs, rag_chain, query, qvec, retrieved, prompt, response,
                   returned, trace, everFailed>>

\* setup_rag_chain, lines 70-90, within 153-157 and the banner of line 160
SetupChain ==
    /\ pc = "setup"
    /\ \E ok \in BOOLEAN :
         IF ok
         THEN /\ rag_chain' = [k |-> K, built |-> TRUE]
              /\ pc' = "Ready"
              /\ printed' = Append(printed, Line("info", <<"Ready to query your notes!">>))
         ELSE /\ rag_chain' = rag_chain
              /\ Abort(printed, "Failed to set up RAG chain: ", "SetupError")
    /\ UNCHANGED <<fs, docs, vectorstore, query, qvec, retrieved, prompt, response,
                   returned, trace, calls, everFailed>>

(* ---------------------------------------------------------------------- *)
(* The interactive loop and the per-query pipeline                         *)
(* ---------------------------------------------------------------------- *)

\* the lines a user can type
Inputs ==
    { <<"e", "x", "i", "t">>, <<"Q", "U", "I", "T">>, <<"E", "x", "i", "t">>,
      <<"e", "x", "i", "t", " ">>, <<"q", "u", "i">>, <<>>,
      <<"t", "o", "d", "o", "?">> }

\* line 163
ExitWords == { <<"e", "x", "i", "t">>, <<"q", "u", "i", "t">> }

\* fault: the line is compared without lower()
IsExitCaseSensitive(line) == line \in ExitWords

\* line 163: query.lower() in ["exit", "quit"]
IsExit(line) == Lower(line) \in ExitWords

\* the answers the language model can give
Answers == { <<>>, <<"o", "k">> }

\* "Response: "
ResponsePrefix == <<"R", "e", "s", "p", "o", "n", "s", "e", ":", " ">>

\* fault: only the answer is returned
format_responseBare(resp) == resp.result

\* fault: the prefix is left out
format_responseNoPrefix(resp) == resp.result \o <<"\n">>

\* format_response, line 98
format_response(resp) == ResponsePrefix \o resp.result \o <<"\n">>

\* Python truth value of what execute_query returned, line 168
Truthy(v) == ~v.is_none /\ v.text # <<>>

\* lines 161-167: read a line; exit words end the loop, any other line is
\* handed to execute_query, which invokes the chain (line 132)
ReadInput ==
    /\ pc \in {"Ready", "Formatted", "Failed"}
    /\ \E line \in Inputs :
         /\ query' = line
         /\ IF IsExit(line)
            THEN /\ pc' = "done"
                 /\ printed' = <<Line("goodbye", <<"Goodbye!">>)>>
                 /\ trace' = <<>>
                 /\ calls' = [calls EXCEPT !.embed = 0, !.lm = 0, !.chain = 0]
            ELSE /\ pc' = "QueryReceived"
                 /\ printed' = <<>>
                 /\ trace' = <<"QueryReceived">>
                 /\ calls' = [calls EXCEPT !.embed = 0, !.lm = 0, !.chain = 1]
    /\ qvec' = 0
    /\ retrieved' = <<>>
    /\ prompt' = NoPrompt
    /\ response' = NoResponse
    /\ returned' = None
    /\ UNCHANGED <<fs, docs, vectorstore, rag_chain, everFailed>>

\* fault: the exception is not caught and ends the script
StageFailsEscapes(e) ==
    /\ pc' = "crashed"
    /\ trace' = Append(trace, "Failed")
    /\ printed' = printed
    /\ returned' = returned
    /\ everFailed' = TRUE

\* lines 134-136, then 168: the exception is caught, reported, None returned,
\* and the loop prints nothing more
StageFails(e) ==
    /\ pc' = "Failed"
    /\ trace' = Append(trace, "Failed")
    /\ printed' = Append(printed, Line("query_error", <<"Error executing query: ", e>>))
    /\ returned' = None
    /\ everFailed' = TRUE

\* a stage completed
StageDone(stage) ==
    /\ pc' = stage
    /\ trace' = Append(trace, stage)

\* fault: an embedding failure is reported and the chain goes on regardless
EmbedQuerySwallowsFailure ==
    /\ pc = "QueryReceived"
    /\ calls' = [calls EXCEPT !.embed = @ + 1]
    /\ pc' = "Embedded"
    /\ \E ok \in BOOLEAN :
         IF ok
         THEN /\ trace' = Append(trace, "Embedded")
              /\ qvec' = Embed(query)
              /\ UNCHANGED <<printed, everFailed>>
         ELSE /\ trace' = Append(Append(trace, "Failed"), "Embedded")
              /\ printed' = Append(printed,
                    Line("query_error", <<"Error executing query: ", "EmbeddingError">>))
              /\ everFailed' = TRUE
              /\ UNCHANGED qvec
    /\ UNCHANGED <<fs, docs, vectorstore, rag_chain, query, retrieved, prompt,
                   response, returned>>

\* chain.invoke, line 132: the retriever embeds the query
EmbedQuery ==
    /\ pc = "QueryReceived"
    /\ calls' = [calls EXCEPT !.embed = @ + 1]
    /\ \E ok \in BOOLEAN :
         IF ok
         THEN /\ StageDone("Embedded")
              /\ qvec' = Embed(query)
              /\ UNCHANGED <<printed, returned, everFailed>>
         ELSE /\ StageFails("EmbeddingError")
              /\ UNCHANGED qvec
    /\ UNCHANGED <<fs, docs, vectorstore, rag_chain, query, retrieved, prompt, response>>

\* fault: the retriever also stores the query text in the index
RetrieveAddsQuery ==
    /\ pc = "Embedded"
    /\ StageDone("Retrieved")
    /\ retrieved' = SimilaritySearch(vectorstore, qvec, rag_chain.k)
    /\ vectorstore' =
          IF Len(vectorstore) <= MaxFiles
          THEN Append(vectorstore,
                  [vector |-> qvec,
                   document |-> [page_content |-> query, source |-> <<"q">>]])
          ELSE vectorstore
    /\ UNCHANGED <<fs, docs, rag_chain, query, qvec, prompt, response, calls,
                   printed, returned, everFailed>>

\* chain.invoke, line 132: the retriever searches the index (k of line 76)
Retrieve ==
    /\ pc = "Embedded"
    /\ \E ok \in BOOLEAN :
         IF ok
         THEN /\ StageDone("Retrieved")
              /\ retrieved' = SimilaritySearch(vectorstore, qvec, rag_chain.k)
              /\ UNCHANGED <<printed, returned, everFailed>>
         ELSE /\ StageFails("RetrievalError")
              /\ UNCHANGED retrieved
    /\ UNCHANGED <<fs, docs, vectorstore, rag_chain, query, qvec, prompt, response, calls>>

\* chain.invoke, line 132: the "stuff" chain fills chat_prompt (lines 52-67, 84-87)
AssemblePrompt ==
    /\ pc = "Retrieved"
    /\ StageDone("PromptAssembled")
    /\ prompt' = [is_none |-> FALSE,
                  context |-> [i \in 1..Len(retrieved) |-> retrieved[i].page_content],
                  question |-> query]
    /\ UNCHANGED <<fs, docs, vectorstore, rag_chain, query, qvec, retrieved, response,
                   returned, printed, calls, everFailed>>

\* chain.invoke, line 132: the language model is called (line 79); the chain
\* returns the result with its source documents (line 86)
Generate ==
    /\ pc = "PromptAssembled"
    /\ calls' = [calls EXCEPT !.lm = @ + 1]
    /\ \E ok \in BOOLEAN, answer \in Answers :
         IF ok
         THEN /\ StageDone("Generated")
              /\ response' = [is_none |-> FALSE,
                              query |-> prompt.question, result |-> answer,
                              source_documents |-> retrieved]
              /\ UNCHANGED <<printed, returned, everFailed>>
         ELSE /\ StageFails("GenerationError")
              /\ UNCHANGED response
    /\ UNCHANGED <<fs, docs, vectorstore, rag_chain, query, qvec, retrieved, prompt>>

\* line 133, then 168-169: format the response, return it, print it if truthy
Format ==
    /\ pc = "Generated"
    /\ StageDone("Formatted")
    /\ returned' = Str(format_response(response))
    /\ printed' = IF Truthy(returned')
                  THEN Append(printed, Line("answer", returned'.text))
                  ELSE printed
    /\ UNCHANGED <<fs, docs, vectorstore, rag_chain, query, qvec, retrieved, prompt,
                   response, calls, everFailed>>

Next ==
    \/ LoadMarkdown
    \/ EmbedDocuments
    \/ SetupChain
    \/ ReadInput
    \/ EmbedQuery
    \/ Retrieve
    \/ AssemblePrompt
    \/ Generate
    \/ Format

Spec == Init /\ [][Next]_vars

(* ---------------------------------------------------------------------- *)
(* Vocabulary of the properties                                            *)
(* ---------------------------------------------------------------------- *)

\* a file name that ends in ".md"
HasMdName(name) ==
    /\ Len(name) >= 3
    /\ name[Len(name) - 2] = "."
    /\ name[Len(name) - 1] = "m"
    /\ name[Len(name)] = "d"

\* the entries of the tree that are markdown files
MarkdownFiles == {i \in 1..MaxFiles : fs[i] # "absent" /\ HasMdName(Candidates[i].filename)}

\* the markdown files that can be read
ReadableMarkdown == {i \in MarkdownFiles : fs[i] = "readable"}

\* the document a file should give: its text under its path
DocumentOf(i) ==
    [page_content |-> Candidates[i].text,
     source |-> Candidates[i].root \o <<"/">> \o Candidates[i].filename]

\* the load step itself raised (the process ended before any embedding call)
LoadRaised == pc = "exited" /\ calls.build = 0

Stages == <<"QueryReceived", "Embedded", "Retrieved", "PromptAssembled",
            "Generated", "Formatted">>

QueryPcs == {Stages[i] : i \in 1..Len(Stages)} \cup {"Failed"}

IsPrefix(s, t) == Len(s) <= Len(t) /\ s = SubSeq(t, 1, Len(s))

InTrace(stage) == \E i \in 1..Len(trace) : trace[i] = stage

Kinds(out) == [i \in 1..Len(out) |-> out[i].kind]

\* two characters are the same letter, case ignored
SameLetter(c, d) ==
    \/ c = d
    \/ \E p \in { <<"e", "E">>, <<"x", "X">>, <<"i", "I">>, <<"t", "T">>,
                  <<"q", "Q">>, <<"u", "U">> } :
          (c = p[1] /\ d = p[2]) \/ (c = p[2] /\ d = p[1])

\* a line that is the word, case ignored
IsWord(line, word) ==
    /\ Len(line) = Len(word)
    /\ \A i \in 1..Len(word) : SameLetter(line[i], word[i])

IsExitCommand(line) ==
    \/ IsWord(line, <<"e", "x", "i", "t">>)
    \/ IsWord(line, <<"q", "u", "i", "t">>)

(* ---------------------------------------------------------------------- *)
(* Properties                                                              *)
(* ---------------------------------------------------------------------- *)

\* C1: once the walk is over, the documents collected are exactly those of
\* the readable .md files, one per file, text and path preserved; other
\* files give no document; an unreadable .md file is logged and skipped and
\* the load raises only when no readable .md file exists.
C1_LoadsExactlyReadableMarkdown ==
    pc # "load" =>
        /\ Len(docs) = Cardinality(ReadableMarkdown)
        /\ \A i \in ReadableMarkdown : \E j \in 1..Len(docs) : docs[j] = DocumentOf(i)
        /\ (ReadableMarkdown # {} => ~LoadRaised)
        /\ pc = "embed" =>
              /\ \A i \in MarkdownFiles \ ReadableMarkdown :
                    \E n \in 1..Len(printed) :
                        printed[n] = Line("load_error", DocumentOf(i).source)
              /\ \A n \in 1..Len(printed) : printed[n].kind # "fatal"

\* C1 witness: a load that met a readable .md file, then an unreadable one,
\* then a readable one again, with a non-.md file present, and went on
C1_Witness ==
    /\ pc = "embed"
    /\ \E i, j, k \in MarkdownFiles :
          /\ i < j /\ j < k
          /\ fs[i] = "readable" /\ fs[j] = "unreadable" /\ fs[k] = "readable"
    /\ \E n \in 1..MaxFiles : fs[n] = "readable" /\ n \notin MarkdownFiles

\* C2: when the tree gives no document, the load fails before any embedding
\* call, the script reports the failure and ends: no chain is set up and no
\* line is ever read.
C2_NoDocumentsIsFatal ==
    (pc # "load" /\ ReadableMarkdown = {}) =>
        /\ pc = "exited"
        /\ calls = [build |-> 0, embed |-> 0, lm |-> 0, chain |-> 0]
        /\ vectorstore = <<>>
        /\ rag_chain = NoChain
        /\ trace = <<>>
        /\ printed[Len(printed)].kind = "fatal"
        /\ ~ENABLED Next

\* C2 witness: a tree whose only .md files are unreadable, after the load
C2_Witness ==
    /\ pc = "exited"
    /\ ReadableMarkdown = {}
    /\ MarkdownFiles # {}

\* C3: a failing stage never ends the script: execute_query returns None
\* after one error line, with no answer printed; a value other than None is
\* returned only when every stage succeeded, and it is the formatted response.
C3_FailureIsOneSignal ==
    /\ pc \in {"load", "embed", "setup", "Ready", "exited", "done"} \cup QueryPcs
    /\ (trace # <<>> /\ trace[Len(trace)] = "Failed") =>
          /\ pc = "Failed"
          /\ returned = None
          /\ Kinds(printed) = <<"query_error">>
    /\ returned # None =>
          /\ trace = Stages
          /\ ~response.is_none
          /\ returned = Str(format_response(response))

\* C3 witness: a query that failed in generation, after retrieval succeeded
C3_Witness ==
    /\ pc = "Failed"
    /\ InTrace("PromptAssembled")
    /\ calls.lm = 1

\* C4: after a query, failed or not, the loop takes the next line; a query
\* gives exactly one output, the answer or an error line; and that holds
\* whatever failed before in the session.
C4_LoopContinues ==
    /\ pc \in {"Formatted", "Failed"} => ENABLED ReadInput
    /\ pc = "Failed" => Kinds(printed) = <<"query_error">>
    /\ pc = "Formatted" =>
          /\ Kinds(printed) = <<"answer">>
          /\ ~returned.is_none
          /\ printed[1].text = returned.text
    /\ pc \in QueryPcs \ {"Formatted", "Failed"} => printed = <<>>

\* C4 witness: an answer printed for a query that follows a failed one
C4_Witness ==
    /\ everFailed
    /\ pc = "Formatted"
    /\ Kinds(printed) = <<"answer">>

\* C5: a line is read or a query processed only with the index built from
\* all the documents and the chain set up; a build-time failure ends the
\* process, which then reads nothing.
C5_BuildBeforeServe ==
    /\ (pc \in QueryPcs \cup {"Ready", "done"} \/ trace # <<>> \/ calls.chain > 0) =>
          /\ docs # <<>>
          /\ calls.build = 1
          /\ Len(vectorstore) = Len(docs)
          /\ \A i \in 1..Len(docs) : vectorstore[i].document = docs[i]
          /\ rag_chain.built
    /\ pc = "exited" =>
          /\ ~ENABLED Next
          /\ trace = <<>>
          /\ calls.chain = 0
          /\ ~rag_chain.built \/ vectorstore = <<>>

\* C5 witness: the embedding of the documents failed and the process ended
C5_Witness ==
    /\ pc = "exited"
    /\ calls.build = 1
    /\ docs # <<>>

\* C6: once load_and_embed_markdown has returned, no step changes the index.
C6_IndexReadOnly ==
    [][pc \notin {"load", "embed"} => vectorstore' = vectorstore]_vars

\* C6 witness: a session with a failed query and then an answered one
C6_Witness ==
    /\ pc = "Formatted"
    /\ everFailed
    /\ Len(vectorstore) > 1

\* C7: the retriever returns min(5, N) documents of the index, no two with
\* the same source path.
C7_RetrievesMinKN ==
    InTrace("Retrieved") =>
        /\ Len(retrieved) = (IF Len(vectorstore) < 5 THEN Len(vectorstore) ELSE 5)
        /\ \A i \in 1..Len(retrieved) :
              \E n \in 1..Len(vectorstore) : vectorstore[n].document = retrieved[i]
        /\ \A i, j \in 1..Len(retrieved) :
              retrieved[i].source = retrieved[j].source => i = j

\* C7 witness: a retrieval over an index of more than five documents
C7_Witness ==
    /\ pc = "Retrieved"
    /\ Len(vectorstore) > 5
    /\ Len(retrieved) = 5

\* C8: the stages of a query run in the fixed order, none skipped; a failure
\* goes to Failed and nothing runs after it: the language model is called
\* only after the prompt was assembled, and a response is formatted only
\* after generation.
C8_StagesAreLinear ==
    /\ trace # <<>> =>
          /\ pc = trace[Len(trace)]
          /\ \/ IsPrefix(trace, Stages)
             \/ /\ trace[Len(trace)] = "Failed"
                /\ Len(trace) >= 2
                /\ IsPrefix(SubSeq(trace, 1, Len(trace) - 1), Stages)
    /\ calls.embed <= 1
    /\ calls.lm <= 1
    /\ calls.lm = 1 => IsPrefix(SubSeq(Stages, 1, 4), trace)
    /\ returned # None => IsPrefix(SubSeq(Stages, 1, 5), trace)

\* C8 witness: a query whose embedding failed: no retrieval, no model call
C8_Witness ==
    /\ trace = <<"QueryReceived", "Failed">>
    /\ calls.embed = 1
    /\ calls.lm = 0

\* C9: the loop ends on exit or quit in any letter case, without invoking
\* the chain; any other line is handed to the chain once and does not end
\* the loop.
C9_ExitOnlyOnExitWords ==
    /\ pc = "done" =>
          /\ IsExitCommand(query)
          /\ calls.chain = 0 /\ calls.embed = 0 /\ calls.lm = 0
          /\ trace = <<>>
          /\ ~ENABLED Next
    /\ pc \in QueryPcs =>
          /\ ~IsExitCommand(query)
          /\ calls.chain = 1

\* C9 witness: the loop ended on an exit word that is not all lower case
C9_Witness ==
    /\ pc = "done"
    /\ query \notin ExitWords

\* C10 as stated: the formatted text is the prefix followed by exactly the
\* answer.
C10_PrefixThenAnswerOnly ==
    pc = "Formatted" => returned = Str(ResponsePrefix \o response.result)

\* C10 amended: the formatted text is "Response: ", then the answer
\* unchanged, then one newline; that text is what the user is shown.
C10_PrefixAnswerNewline ==
    pc = "Formatted" =>
        /\ returned = Str(ResponsePrefix \o response.result \o <<"\n">>)
        /\ response.result \in Answers
        /\ printed = <<Line("answer", returned.text)>>

\* C10 witness: an empty answer, formatted
C10_Witness ==
    /\ pc = "Formatted"
    /\ response.result = <<>>

====
